---- MODULE Spec2Model ----
(***************************************************************************)
(* A model of the model analyzer of SDEverywhere (src/src/Model.js) and of *)
(* the spec loader of the generator (src/src/sde-generate.js).             *)
(*                                                                         *)
(* A string that the code builds or parses (a refId) is a sequence of      *)
(* lexemes: a name matched by \w+ is one lexeme, and "[", "," and "]" are  *)
(* lexemes of their own, so "_a[_r1,_s1]" is                                *)
(* <<"_a", "[", "_r1", ",", "_s1", "]">>.                                   *)
(***************************************************************************)
EXTENDS Integers, Sequences, FiniteSets, TLC

\* ------------------------------------------------------------------ bounds

\* The greatest number of equations (records before _time) of a model.
MaxVars == 3
\* The greatest number of variable references in all the equations of a model.
MaxRefs == 2
\* The greatest number of dimension names in all the subscript range definitions of a model.
MaxDimRefs == 2
\* The greatest length to which the model expands a dimension's value.
MaxExpandedLen == 8

\* The greatest number of names in spec.inputVars, and in spec.outputVars.
MaxSpecVars == 2
\* The most index names of a dimension whose family is set.
MaxDimSize == 2

VARIABLES
  opts,          \* sde-generate.js: the options of generate(), with the state of the file opts.spec names
  output,        \* sde-generate.js: the kinds of the files written by writeOutput
  mappings,      \* the dimensions' mappings, fromDim name -> toDim name -> value: raw, then inverted
  addIndexCalls, \* the calls of addIndex, in order: <<name, value, family>>
  spec,          \* the spec argument of read(): inputVars, outputVars, dimensionFamilies
  extData,       \* the extData argument of read(): the names that have external data
  ranges,        \* the subscript range definitions of the model: dimension name -> raw value
  dimIdx,        \* readSubscriptRanges: the position of the for loop in allDims
  dimFoundInValue, \* readSubscriptRanges: let dimFoundInValue
  dims,          \* the subscript registry's dimensions: name -> [value, size, family]
  indices,       \* the subscript registry's indices: name -> [value, family]
  parseTree,     \* the equations of the model, one per record, as the readers see them
  variables,     \* Model.js: let variables = []
  nonAtoANames,  \* Model.js: let nonAtoANames = Object.create(null)
  pc,            \* the statement of read() / of the generator that runs next
  sorted,        \* the generator's call of auxVars(), levelVars() or initVars(), and what it returned
  stderr,        \* the diagnostics written to the error stream
  exitCode       \* the exit code of the process, -1 while it runs

vars == <<opts, output, mappings, addIndexCalls, spec, extData, ranges, dimIdx, dimFoundInValue, dims, indices, parseTree, variables, nonAtoANames, pc, sorted, stderr, exitCode>>

\* ------------------------------------------------------- sequences (ramda)

Min(S) == CHOOSE x \in S : \A y \in S : x <= y

SeqToSet(s) == {s[i] : i \in 1..Len(s)}

\* R.contains(x, list)
Contains(x, s) == \E i \in 1..Len(s) : s[i] = x

\* Array.prototype.reverse
Reverse(s) == [i \in 1..Len(s) |-> s[Len(s) + 1 - i]]

\* R.uniq: the first occurrence of each element, in order
Uniq(s) ==
  LET firsts == SelectSeq([i \in 1..Len(s) |-> i], LAMBDA i : \A j \in 1..(i - 1) : s[j] # s[i])
  IN  [k \in 1..Len(firsts) |-> s[firsts[k]]]

\* R.unnest of a list of lists
RECURSIVE Unnest(_)
Unnest(ss) == IF ss = <<>> THEN <<>> ELSE Head(ss) \o Unnest(Tail(ss))

\* The elements of a set of numbers, ascending.
RECURSIVE SetToSeq(_)
SetToSeq(S) == IF S = {} THEN <<>> ELSE <<Min(S)>> \o SetToSeq(S \ {Min(S)})

\* The subsets of S of at most k elements.
RECURSIVE SubsetsUpTo(_, _)
SubsetsUpTo(S, k) ==
  IF k = 0 THEN {{}}
  ELSE LET smaller == SubsetsUpTo(S, k - 1)
       IN  smaller \cup {T \cup {x} : T \in smaller, x \in S}

\* The orders (sequences without repetition) of all the elements of S.
RECURSIVE Perms(_)
Perms(S) ==
  IF S = {} THEN {<<>>}
  ELSE UNION {{<<x>> \o p : p \in Perms(S \ {x})} : x \in S}

\* ----------------------------------------------------------------- names

\* The names of the models checked, in the order of JavaScript's string comparison.
NameOrder ==
  <<"_a", "_b", "_dima", "_dimb", "_dimc", "_dimr", "_dims", "_i1", "_i2",
    "_r1", "_r2", "_s1", "_s2", "_subr", "_time", "_x", "_y">>

NameRank(name) == Min({i \in 1..Len(NameOrder) : NameOrder[i] = name} \cup {Len(NameOrder) + 1})

\* ----------------------------------------------------- Subscript registry

isDimension(name) == name \in DOMAIN dims
isIndex(name) == name \in DOMAIN indices
sub(name) == IF isDimension(name) THEN dims[name] ELSE indices[name]

\* Subscripts sorted by family name, ascending (a stable insertion sort).
RECURSIVE normalizeSubscripts(_)
normalizeSubscripts(subscripts) ==
  IF subscripts = <<>> THEN <<>>
  ELSE LET rest == normalizeSubscripts(Tail(subscripts))
           s == Head(subscripts)
           key(x) == IF isDimension(x) \/ isIndex(x) THEN NameRank(sub(x).family) ELSE NameRank(x)
           before == SelectSeq(rest, LAMBDA x : key(x) < key(s))
           after == SelectSeq(rest, LAMBDA x : key(x) >= key(s))
       IN  before \o <<s>> \o after

\* --------------------------------------------------------------- Variable

Variable(varName, subscripts) ==
  [varName |-> varName, subscripts |-> subscripts, refId |-> <<>>, varType |-> "",
   hasInitValue |-> FALSE, references |-> <<>>, initReferences |-> <<>>]

\* What R.find returns when no element matches.
Undefined == Variable("undefined", <<>>)

\* R.find(R.propEq('refId', refId), list)
findRefId(refId, list) ==
  LET hits == {i \in 1..Len(list) : list[i].refId = refId}
  IN  IF hits = {} THEN Undefined ELSE list[Min(hits)]

hasSubscripts(v) == Len(v.subscripts) > 0

\* Array.prototype.join, on lexemes
RECURSIVE join(_, _)
join(list, sep) ==
  IF list = <<>> THEN <<>>
  ELSE IF Len(list) = 1 THEN <<list[1]>>
  ELSE <<list[1], sep>> \o join(Tail(list), sep)

\* v.subscripts[i], zero-based, which is undefined past the end
subscriptAt(v, i) == IF i + 1 <= Len(v.subscripts) THEN v.subscripts[i + 1] ELSE "undefined"

\* ------------------------------------------------------------ Model API

isNonAtoAName(varName) == varName \in DOMAIN nonAtoANames

varsWithName(varName) == SelectSeq(variables, LAMBDA v : v.varName = varName)

refIdsWithName(varName) ==
  LET vs == varsWithName(varName) IN [k \in 1..Len(vs) |-> vs[k].refId]

\* The names of the table (the code sorts them; findNonAtoAVars does not depend on the order).
varNames == {variables[i].varName : i \in 1..Len(variables)}

\* refIdForVar with only the first subscript in the refId.
refIdForVarFirstSubscript(v) ==
  IF hasSubscripts(v) /\ isNonAtoAName(v.varName)
  THEN <<v.varName, "[", v.subscripts[1], "]">>
  ELSE <<v.varName>>

refIdForVar(v) ==
  IF hasSubscripts(v) /\ isNonAtoAName(v.varName)
  THEN <<v.varName, "[">> \o join(v.subscripts, ",") \o <<"]">>
  ELSE <<v.varName>>

\* The loop of splitRefId over the matches of /\w+|\[/g.
RECURSIVE splitScan(_, _, _, _)
splitScan(matches, inSubs, varName, subscripts) ==
  IF matches = <<>> THEN [varName |-> varName, subscripts |-> subscripts]
  ELSE IF Head(matches) = "[" THEN splitScan(Tail(matches), TRUE, varName, subscripts)
  ELSE IF inSubs THEN splitScan(Tail(matches), inSubs, varName, Append(subscripts, Head(matches)))
  ELSE splitScan(Tail(matches), inSubs, Head(matches), subscripts)

splitRefId(refId) ==
  LET matches == SelectSeq(refId, LAMBDA t : t \notin {",", "]"})
      parts == splitScan(matches, FALSE, "", <<>>)
  IN  [varName |-> parts.varName, subscripts |-> normalizeSubscripts(parts.subscripts)]

\* The comparison of a record's subscripts with a reference's, position by position.
subscriptsMatch(subscripts, refSubscripts) ==
  \A pos \in 1..Len(subscripts) :
    LET s == subscripts[pos]
        r == IF pos <= Len(refSubscripts) THEN refSubscripts[pos] ELSE "undefined"
    IN  IF (isIndex(s) /\ isIndex(r)) \/ (isDimension(s) /\ isDimension(r))
        THEN s = r
        ELSE IF isDimension(s) /\ isIndex(r)
        THEN Contains(r, sub(s).value)
        ELSE FALSE

varWithRefId(refId) ==
  LET refVar == findRefId(refId, variables)
  IN  IF refVar # Undefined THEN refVar
      ELSE LET parts == splitRefId(refId)
               varRefIds == refIdsWithName(parts.varName)
               hits == {k \in 1..Len(varRefIds) :
                          subscriptsMatch(splitRefId(varRefIds[k]).subscripts, parts.subscripts)}
           IN  IF hits = {} THEN Undefined
               ELSE findRefId(varRefIds[Min(hits)], variables)

\* ------------------------------------------------------ analysis helpers

\* areSubsEqual looking at the first two records only.
areSubsEqualFirstTwo(vs, i) ==
  subscriptAt(vs[Min({2, Len(vs)})], i) = subscriptAt(vs[1], i)

areSubsEqual(vs, i) ==
  \A k \in 1..Len(vs) : subscriptAt(vs[k], i) = subscriptAt(vs[1], i)

\* The expansion dims array that findNonAtoAVars builds for the records of one name.
expansionDims(vs) ==
  [i \in 1..Len(vs[1].subscripts) |-> ~areSubsEqual(vs, i - 1)]

\* findNonAtoAVars registering a name only from the third record on.
isNonAtoAGroupOverTwo(vs) == Len(vs) > 2

isNonAtoAGroup(vs) == Len(vs) > 1

\* refIsConst without the data vars.
refIsConstNotData(refId) ==
  LET v == varWithRefId(refId)
  IN  v # Undefined /\ v.varType \in {"const", "lookup"}

refIsConst(refId) ==
  LET v == varWithRefId(refId)
  IN  v # Undefined /\ v.varType \in {"const", "data", "lookup"}

withoutConstRefs(refIds) == SelectSeq(refIds, LAMBDA refId : ~refIsConst(refId))

\* ------------------------------------------------------------- toposort

\* The position of a lexeme in JavaScript's string order: "," < "[" < "]" < "_...".
LexemeRank(t) == IF t = "," THEN -3 ELSE IF t = "[" THEN -2 ELSE IF t = "]" THEN -1 ELSE NameRank(t)

\* a < b for two strings, lexeme by lexeme; a proper prefix comes first.
RECURSIVE StrLess(_, _)
StrLess(a, b) ==
  IF b = <<>> THEN FALSE
  ELSE IF a = <<>> THEN TRUE
  ELSE IF Head(a) = Head(b) THEN StrLess(Tail(a), Tail(b))
  ELSE LexemeRank(Head(a)) < LexemeRank(Head(b))

\* Helpers.vsort: the records sorted by refId (a stable insertion sort).
RECURSIVE vsort(_)
vsort(vs) ==
  IF vs = <<>> THEN <<>>
  ELSE LET rest == vsort(Tail(vs))
           v == Head(vs)
           before == SelectSeq(rest, LAMBDA w : StrLess(w.refId, v.refId))
           after == SelectSeq(rest, LAMBDA w : ~StrLess(w.refId, v.refId))
       IN  before \o <<v>> \o after

graphNodes(graph) == {graph[e][1] : e \in 1..Len(graph)} \cup {graph[e][2] : e \in 1..Len(graph)}

IndexOf(x, s) == Min({i \in 1..Len(s) : s[i] = x} \cup {Len(s) + 1})

\* toposort(edges): the orders of the nodes of the edges in which every edge [a, b]
\* has a before b. There is none exactly when the edges hold a directed cycle, and
\* then toposort throws.
toposort(graph) ==
  {order \in Perms(graphNodes(graph)) :
     \A e \in 1..Len(graph) : IndexOf(graph[e][1], order) < IndexOf(graph[e][2], order)}

\* ------------------------------------------------- lists of vars, sorted

varsOfType(varType, vs) ==
  SelectSeq(vs, LAMBDA v : v.varType = varType /\ v.varName # "_time")

\* depPair without the reversal of level-to-level references.
depPairNotReversed(v, ref) == <<v.refId, ref.refId>>

\* The dependency pair of v and a record ref that it references.
depPair(v, ref) ==
  IF v.varType = "level" /\ ref.varType = "level"
  THEN <<ref.refId, v.refId>>
  ELSE <<v.refId, ref.refId>>

\* sortVarsOfType.refs: the dependency pairs of v at eval time.
refs(v, varType) ==
  LET all == [k \in 1..Len(v.references) |-> varWithRefId(v.references[k])]
      ofType == Uniq(SelectSeq(all, LAMBDA r : r.varType = varType))
  IN  [k \in 1..Len(ofType) |-> depPair(v, ofType[k])]

\* The graph that sortVarsOfType hands to toposort.
typeGraph(varType) ==
  LET vs == varsOfType(varType, variables)
  IN  Unnest([k \in 1..Len(vs) |-> refs(vs[k], varType)])

\* toposort's result as it is.
depsOfNoReverse(order) == order

\* toposort's result turned around.
depsOf(order) == Reverse(order)

\* sortVarsOfType without the vars that have no dependencies.
sortedVarsOfTypeNoNodeps(varType, order) ==
  varsOfType(varType, [k \in 1..Len(depsOf(order)) |-> varWithRefId(depsOf(order)[k])])

\* What sortVarsOfType returns for the order toposort gave.
sortedVarsOfType(varType, order) ==
  LET deps == depsOf(order)
      vs == varsOfType(varType, variables)
      sortedVars == varsOfType(varType, [k \in 1..Len(deps) |-> varWithRefId(deps[k])])
      nodepVars == vsort(SelectSeq(vs, LAMBDA v : ~Contains(v, sortedVars)))
  IN  nodepVars \o sortedVars

\* depsMap is a Map: a sequence of <<key, value>> in the order of insertion.
depsGet(depsMap, key) == \E k \in 1..Len(depsMap) : depsMap[k][1] = key

depsSet(depsMap, key, value) ==
  IF depsGet(depsMap, key)
  THEN [k \in 1..Len(depsMap) |-> IF depsMap[k][1] = key THEN <<key, value>> ELSE depsMap[k]]
  ELSE Append(depsMap, <<key, value>>)

\* addDepsToMap following the eval-time references of every var.
initRefIdsAlwaysReferences(v) == v.references

\* The refIds that sortInitVars follows from v.
initRefIds(v) == IF v.hasInitValue THEN v.initReferences ELSE v.references

\* Whether addDepsToMap puts the record of refId onto the queue.
pushesRef(refId, queue, depsMap) ==
  /\ ~depsGet(depsMap, refId)
  /\ varWithRefId(refId) # Undefined
  /\ varWithRefId(refId).varType # "const"
  /\ ~Contains(varWithRefId(refId), queue)

\* The R.forEach of addDepsToMap over refIds: the queue after it.
RECURSIVE pushRefs(_, _, _)
pushRefs(refIds, queue, depsMap) ==
  IF refIds = <<>> THEN queue
  ELSE pushRefs(Tail(refIds),
                IF pushesRef(Head(refIds), queue, depsMap)
                THEN Append(queue, varWithRefId(Head(refIds)))
                ELSE queue,
                depsMap)

\* The while loop of sortInitVars: the depsMap when the queue is empty.
RECURSIVE addDepsLoop(_, _)
addDepsLoop(queue, depsMap) ==
  IF queue = <<>> THEN depsMap
  ELSE LET v == queue[Len(queue)]
           rest == SubSeq(queue, 1, Len(queue) - 1)
           refIds == initRefIds(v)
       IN  IF Len(refIds) > 0
           THEN LET map2 == depsSet(depsMap, v.refId, refIds)
                IN  addDepsLoop(pushRefs(refIds, rest, map2), map2)
           ELSE addDepsLoop(rest, depsMap)

\* The graph of sortInitVars with every pair the other way round: [dependency, var].
initGraphDepFirst ==
  LET initVars == SelectSeq(variables, LAMBDA v : v.hasInitValue = TRUE)
      depsMap == addDepsLoop(initVars, <<>>)
  IN  Unnest([k \in 1..Len(depsMap) |->
                [j \in 1..Len(depsMap[k][2]) |-> <<depsMap[k][2][j], depsMap[k][1]>>]])

\* The graph that sortInitVars hands to toposort.
initGraph ==
  LET initVars == SelectSeq(variables, LAMBDA v : v.hasInitValue = TRUE)
      depsMap == addDepsLoop(initVars, <<>>)
  IN  Unnest([k \in 1..Len(depsMap) |->
                [j \in 1..Len(depsMap[k][2]) |-> <<depsMap[k][1], depsMap[k][2][j]>>]])

isConstOrLookup(v) == v.varType = "const" \/ v.varType = "lookup"

\* What sortInitVars returns for the order toposort gave.
sortedInitVars(order) ==
  LET deps == depsOf(order)
      initVars == SelectSeq(variables, LAMBDA v : v.hasInitValue = TRUE)
      found == [k \in 1..Len(deps) |-> varWithRefId(deps[k])]
      sortedVars == SelectSeq(found, LAMBDA v : ~isConstOrLookup(v))
      nodepVars == vsort(SelectSeq(initVars, LAMBDA v : ~Contains(v, sortedVars)))
  IN  nodepVars \o sortedVars

\* ------------------------------------------------------------- the spec

\* The spec of a run without a spec file: parseJsonFile returns {}.
NoSpec == [inputVars |-> <<>>, outputVars |-> <<>>, dimensionFamilies |-> [d \in {} |-> ""]]

\* The options of a run of generate() that names no spec file or a missing one.
NoOpts ==
  [genc |-> TRUE, list |-> FALSE, preprocess |-> FALSE, analysis |-> FALSE,
   specFile |-> "absent", specJson |-> NoSpec]

\* The options of the run of generate() that reads the spec s.
OptsOf(s) == IF s = NoSpec THEN NoOpts ELSE [NoOpts EXCEPT !.specFile = "valid", !.specJson = s]

\* No mappings for the dimensions of D.
NoMappings(D) == [d \in D |-> [t \in {} |-> <<>>]]

\* ------------------------------------------------- readSubscriptRanges

\* The dimensions of the models whose subscript ranges are read, in the order of allDimensions().
DimNames == <<"_dima", "_dimb", "_dimc">>

SubscriptNames == SeqToSet(DimNames) \cup {"_i1", "_i2"}

\* The raw values of a subscript range definition: one or two names.
RangeValues == {<<x>> : x \in SubscriptNames} \cup {<<x, y>> : x \in SubscriptNames, y \in SubscriptNames}

\* The number of dimension names in a value.
DimRefs(value) == Len(SelectSeq(value, LAMBDA x : x \in SeqToSet(DimNames)))

RECURSIVE Sum(_, _)
Sum(f, S) == IF S = {} THEN 0 ELSE LET x == CHOOSE y \in S : TRUE IN f[x] + Sum(f, S \ {x})

RangeModels ==
  {r \in [SeqToSet(DimNames) -> RangeValues] :
     Sum([d \in SeqToSet(DimNames) |-> DimRefs(r[d])], SeqToSet(DimNames)) <= MaxDimRefs}

\* allDimensions(): the names of the dimensions of the registry.
allDims == SelectSeq(DimNames, LAMBDA d : isDimension(d))

\* R.flatten(R.map(subscript => (isDimension(subscript) ? sub(subscript).value : subscript), value))
expandedValue(value) ==
  Unnest([k \in 1..Len(value) |->
            IF isDimension(value[k]) THEN sub(value[k]).value ELSE <<value[k]>>])

\* The dimension with its value replaced and its size left as it was.
expandedDimSizeKept(dim, value) == [dim EXCEPT !.value = value]

\* The dimension with its value replaced by the expanded value.
expandedDim(dim, value) == [dim EXCEPT !.value = value, !.size = Len(value)]

\* The state when read() calls readSubscriptRanges on a model of Models.
InitRanges(Models) ==
  /\ opts = NoOpts
  /\ output = {}
  /\ mappings = NoMappings({})
  /\ addIndexCalls = <<>>
  /\ spec = NoSpec
  /\ extData = {}
  /\ ranges \in Models
  /\ dimIdx = 0
  /\ dimFoundInValue = FALSE
  /\ dims = [d \in {} |-> <<>>]
  /\ indices = [i \in {} |-> <<>>]
  /\ parseTree = <<>>
  /\ variables = <<>>
  /\ nonAtoANames = [name \in {} |-> <<>>]
  /\ pc = "readSubscriptRanges"
  /\ sorted = [call |-> "", vars |-> <<>>]
  /\ stderr = <<>>
  /\ exitCode = -1

InitDims == InitRanges(RangeModels)

\* subscriptRangeReader.visitModel(tree): every dimension is registered with its raw
\* value and with itself as its family; the do loop is entered.
VisitRanges ==
  /\ pc = "readSubscriptRanges"
  /\ dims' = [d \in DOMAIN ranges |-> [value |-> ranges[d], size |-> Len(ranges[d]), family |-> d]]
  /\ dimFoundInValue' = FALSE
  /\ dimIdx' = 1
  /\ pc' = "expand"
  /\ UNCHANGED <<opts, output, mappings, addIndexCalls, spec, extData, ranges, indices, parseTree, variables, nonAtoANames, sorted, stderr, exitCode>>

\* One turn of the for loop over allDims. A value longer than MaxExpandedLen is
\* beyond the model: the step is not taken.
ExpandDim ==
  /\ pc = "expand"
  /\ LET name == allDims[dimIdx]
         value == expandedValue(dims[name].value)
     IN  /\ Len(value) <= MaxExpandedLen
         /\ IF value # dims[name].value
            THEN /\ dimFoundInValue' = TRUE
                 /\ dims' = [dims EXCEPT ![name] = expandedDim(@, value)]
            ELSE UNCHANGED <<dimFoundInValue, dims>>
  /\ IF dimIdx < Len(allDims)
     THEN dimIdx' = dimIdx + 1 /\ pc' = pc
     ELSE dimIdx' = 0 /\ pc' = "expandTest"
  /\ UNCHANGED <<opts, output, mappings, addIndexCalls, spec, extData, ranges, indices, parseTree, variables, nonAtoANames, sorted, stderr, exitCode>>

\* Where the do loop goes after a pass.
afterPass(found) == IF found THEN "expand" ELSE "families"

\* while (dimFoundInValue)
ExpandTest ==
  /\ pc = "expandTest"
  /\ pc' = afterPass(dimFoundInValue)
  /\ dimIdx' = IF afterPass(dimFoundInValue) = "expand" THEN 1 ELSE 0
  /\ dimFoundInValue' = FALSE
  /\ UNCHANGED <<opts, output, mappings, addIndexCalls, spec, extData, ranges, dims, indices, parseTree, variables, nonAtoANames, sorted, stderr, exitCode>>

NextDims ==
  \/ VisitRanges
  \/ ExpandDim
  \/ ExpandTest

\* The loop runs on as long as it can: the program is one thread that never waits.
SpecDims == InitDims /\ [][NextDims]_vars /\ WF_vars(NextDims)

\* --------------------------------- readSubscriptRanges: dimension families

\* The models whose families, indices and mappings are set: the dimensions DimNames
\* over the index names i1, i2, r1, r2, a dimension holding at most MaxDimSize of them.
IndexNames == {"_i1", "_i2", "_r1", "_r2"}

\* The lists of 1..MaxDimSize different names of S.
IndexLists(S) ==
  UNION {{s \in [1..n -> S] : \A i \in 1..n, j \in 1..n : i # j => s[i] # s[j]} : n \in 1..MaxDimSize}

\* The subscript ranges DimA: a; DimB: b; DimC: c.
RangesOf(a, b, c) ==
  [d \in SeqToSet(DimNames) |-> IF d = "_dima" THEN a ELSE IF d = "_dimb" THEN b ELSE c]

\* spec.dimensionFamilies: absent, or one dimension given a family.
FamilyOverrides ==
  {NoSpec.dimensionFamilies} \cup {[x \in {d} |-> f] : d \in SeqToSet(DimNames), f \in SeqToSet(DimNames)}

\* The subscripts a mapping from DimA names for an index of DimA.
MapToNames == {"_r1", "_r2", "_dimc", "_i1"}

\* The mapping values of DimA -> DimB as the subscript range reader leaves them: no
\* mapping, DimA -> DimB (an empty list), or DimA -> (DimB: one subscript per index of a).
RawMappings(a) ==
  {NoMappings(SeqToSet(DimNames))}
    \cup {[NoMappings(SeqToSet(DimNames)) EXCEPT !["_dima"] = [t \in {"_dimb"} |-> raw]] :
            raw \in {<<>>} \cup [1..Len(a) -> MapToNames]}

\* The state when read() calls readSubscriptRanges(parseTree, spec.dimensionFamilies)
\* on the subscript ranges r with the dimension families and the mappings given.
InitFamiliesOf(r, dimensionFamilies, rawMappings) ==
  /\ opts = OptsOf([NoSpec EXCEPT !.dimensionFamilies = dimensionFamilies])
  /\ output = {}
  /\ mappings = rawMappings
  /\ addIndexCalls = <<>>
  /\ spec = [NoSpec EXCEPT !.dimensionFamilies = dimensionFamilies]
  /\ extData = {}
  /\ ranges = r
  /\ dimIdx = 0
  /\ dimFoundInValue = FALSE
  /\ dims = [d \in {} |-> <<>>]
  /\ indices = [i \in {} |-> <<>>]
  /\ parseTree = <<>>
  /\ variables = <<>>
  /\ nonAtoANames = [name \in {} |-> <<>>]
  /\ pc = "readSubscriptRanges"
  /\ sorted = [call |-> "", vars |-> <<>>]
  /\ stderr = <<>>
  /\ exitCode = -1

InitFamilies ==
  \/ \E a \in IndexLists(IndexNames), b \in IndexLists(IndexNames), c \in IndexLists({"_i1", "_i2"}) :
       \E dimensionFamilies \in FamilyOverrides :
         InitFamiliesOf(RangesOf(a, b, c), dimensionFamilies, NoMappings(SeqToSet(DimNames)))
  \/ \E a \in IndexLists({"_i1", "_i2"}), b \in IndexLists({"_r1", "_r2"}),
        c \in {<<"_r2">>, <<"_r1", "_r2">>, <<"_i1">>} :
       \E rawMappings \in RawMappings(a) :
         InitFamiliesOf(RangesOf(a, b, c), NoSpec.dimensionFamilies, rawMappings)

\* dimComparator with the names compared the other way round.
dimComparatorNameAscending(dim1, dim2) ==
  IF dims[dim1].size < dims[dim2].size THEN -1
  ELSE IF dims[dim1].size > dims[dim2].size THEN 1
  ELSE IF NameRank(dim1) < NameRank(dim2) THEN -1
  ELSE IF NameRank(dim1) > NameRank(dim2) THEN 1
  ELSE 0

\* Sort dimensions by size ascending, by name descending.
dimComparator(dim1, dim2) ==
  IF dims[dim1].size < dims[dim2].size THEN -1
  ELSE IF dims[dim1].size > dims[dim2].size THEN 1
  ELSE IF NameRank(dim1) > NameRank(dim2) THEN -1
  ELSE IF NameRank(dim1) < NameRank(dim2) THEN 1
  ELSE 0

\* R.sort(dimComparator, list)
RECURSIVE sortDims(_)
sortDims(list) ==
  IF list = <<>> THEN <<>>
  ELSE LET rest == sortDims(Tail(list))
           d == Head(list)
           before == SelectSeq(rest, LAMBDA e : dimComparator(e, d) < 0)
           after == SelectSeq(rest, LAMBDA e : dimComparator(e, d) >= 0)
       IN  before \o <<d>> \o after

\* dimensionFamilies && dimensionFamilies[dim.name]
familyInSpec(dim) == dim \in DOMAIN spec.dimensionFamilies

\* R.sort(dimComparator, R.filter(thisDim => R.contains(index, thisDim.value), allDims))
\* with index = dim.value[0]; no dimension contains the index of an empty value.
familyDims(dim) ==
  IF dims[dim].value = <<>> THEN <<>>
  ELSE sortDims(SelectSeq(allDims, LAMBDA thisDim : Contains(dims[dim].value[1], dims[thisDim].value)))

\* The family the loop gives to dim.
familyOf(dim) ==
  IF familyInSpec(dim) THEN spec.dimensionFamilies[dim]
  ELSE IF Len(familyDims(dim)) > 0 THEN familyDims(dim)[Len(familyDims(dim))]
  ELSE dims[dim].family

\* console.error(`No family found for dimension ${dim.name}`)
noFamily(dim) == [error |-> "No family found", fromDim |-> dim, fromIndName |-> "", toSubName |-> ""]

\* The for loop that updates the families of the dimensions. A turn reads the values
\* and the sizes of the dimensions and writes the family of one: the turns do not
\* depend on each other.
SetFamilies ==
  /\ pc = "families"
  /\ dims' = [d \in DOMAIN dims |-> [dims[d] EXCEPT !.family = familyOf(d)]]
  /\ stderr' = stderr \o
       [k \in 1..Len(SelectSeq(allDims, LAMBDA d : ~familyInSpec(d) /\ familyDims(d) = <<>>)) |->
          noFamily(SelectSeq(allDims, LAMBDA d : ~familyInSpec(d) /\ familyDims(d) = <<>>)[k])]
  /\ pc' = "indices"
  /\ UNCHANGED <<opts, output, mappings, addIndexCalls, spec, extData, ranges, dimIdx, dimFoundInValue, indices, parseTree, variables, nonAtoANames, sorted, exitCode>>

\* ------------------------------------------- readSubscriptRanges: indices

\* addIndex(name, value, family): the index is registered, over an earlier one of its name.
addIndex(st, name, value, family) ==
  [indices |-> [i \in DOMAIN st.indices \cup {name} |->
                  IF i = name THEN [value |-> value, family |-> family] ELSE st.indices[i]],
   calls |-> Append(st.calls, <<name, value, family>>)]

\* for (let i = 0; i < dim.value.length; i++) addIndex(dim.value[i], i, dim.family)
RECURSIVE addIndicesOf(_, _, _)
addIndicesOf(st, dim, i) ==
  IF i >= Len(dims[dim].value) THEN st
  ELSE addIndicesOf(addIndex(st, dims[dim].value[i + 1], i, dims[dim].family), dim, i + 1)

\* for (let dim of allDims) if (dim.family === dim.name) ...
RECURSIVE addIndices(_, _)
addIndices(st, list) ==
  IF list = <<>> THEN st
  ELSE addIndices(IF dims[Head(list)].family = Head(list) THEN addIndicesOf(st, Head(list), 0) ELSE st,
                  Tail(list))

\* The loop that defines the indices from the family dimensions.
AddIndices ==
  /\ pc = "indices"
  /\ LET st == addIndices([indices |-> indices, calls |-> addIndexCalls], allDims)
     IN  indices' = st.indices /\ addIndexCalls' = st.calls
  /\ pc' = "mappings"
  /\ UNCHANGED <<opts, output, mappings, spec, extData, ranges, dimIdx, dimFoundInValue, dims, parseTree, variables, nonAtoANames, sorted, stderr, exitCode>>

\* ------------------------------------------ readSubscriptRanges: mappings

\* A position of an array that was never assigned.
Hole == "undefined"

\* array.indexOf(x): the position of x counted from 0, -1 when x is not in the array.
indexOf(array, x) == IF Contains(x, array) THEN IndexOf(x, array) - 1 ELSE -1

\* array[n] = x: the array grows to hold position n, with holes in between.
setAt(array, n, x) ==
  IF n < Len(array) THEN [array EXCEPT ![n + 1] = x]
  ELSE array \o [k \in 1..(n - Len(array)) |-> Hole] \o <<x>>

\* The uncaught exception the error branch of setMappingValue ends in: toSubName is
\* declared in the body of the for loop and is not in the scope of the closure.
ReferenceError(fromDim, fromIndName) ==
  [error |-> "ReferenceError: toSubName is not defined", fromDim |-> "", fromIndName |-> "", toSubName |-> ""]

\* The uncaught exception of toSub.name when sub(toSubName) is not a subscript.
TypeError(fromDim, fromIndName) ==
  [error |-> "TypeError: Cannot read property 'name' of undefined", fromDim |-> "", fromIndName |-> "", toSubName |-> ""]

\* No exception.
NoError == [error |-> "", fromDim |-> "", fromIndName |-> "", toSubName |-> ""]

\* setMappingValue(toIndNumber, fromIndName) on the array st.value.
setMappingValue(st, toDimName, fromDim, toIndNumber, fromIndName) ==
  IF st.error # NoError THEN st
  ELSE IF toIndNumber >= 0 /\ toIndNumber < dims[toDimName].size
       THEN [st EXCEPT !.value = setAt(st.value, toIndNumber, fromIndName)]
       ELSE [st EXCEPT !.error = ReferenceError(fromDim, fromIndName)]

\* for (let toIndName of toSub.value) setMappingValue(toDim.value.indexOf(toIndName), fromIndName)
RECURSIVE fillFromDimension(_, _, _, _, _)
fillFromDimension(st, toDimName, fromDim, toIndNames, fromIndName) ==
  IF toIndNames = <<>> THEN st
  ELSE fillFromDimension(
         setMappingValue(st, toDimName, fromDim, indexOf(dims[toDimName].value, Head(toIndNames)), fromIndName),
         toDimName, fromDim, Tail(toIndNames), fromIndName)

\* for (let i = 0; i < fromDim.value.length; i++) ...
RECURSIVE fillMappingValue(_, _, _, _, _)
fillMappingValue(st, toDimName, fromDim, mappingValue, i) ==
  IF i >= Len(dims[fromDim].value) \/ st.error # NoError THEN st
  ELSE LET fromIndName == dims[fromDim].value[i + 1]
           known == i < Len(mappingValue) /\ (isDimension(mappingValue[i + 1]) \/ isIndex(mappingValue[i + 1]))
           toSubName == mappingValue[i + 1]
       IN  fillMappingValue(
             IF ~known THEN [st EXCEPT !.error = TypeError(fromDim, fromIndName)]
             ELSE IF isDimension(toSubName)
                  THEN fillFromDimension(st, toDimName, fromDim, dims[toSubName].value, fromIndName)
                  ELSE setMappingValue(st, toDimName, fromDim, indexOf(dims[toDimName].value, toSubName), fromIndName),
             toDimName, fromDim, mappingValue, i + 1)

\* The inverted mapping value of fromDim.mappings[toDimName], or the exception.
invertedMappingValue(fromDim, toDimName) ==
  IF mappings[fromDim][toDimName] = <<>>
  THEN [value |-> dims[fromDim].value, error |-> NoError]
  ELSE fillMappingValue([value |-> <<>>, error |-> NoError], toDimName, fromDim, mappings[fromDim][toDimName], 0)

\* The mappings of the dimensions of list, in the order of the loops: st.mappings
\* holds the values replaced before an exception ended the loops.
RECURSIVE invertMappingsOf(_, _, _)
invertMappingsOf(st, fromDim, toDimNames) ==
  IF toDimNames = <<>> \/ st.error # NoError THEN st
  ELSE LET inverted == invertedMappingValue(fromDim, Head(toDimNames))
       IN  invertMappingsOf(
             IF inverted.error # NoError THEN [st EXCEPT !.error = inverted.error]
             ELSE [st EXCEPT !.mappings[fromDim][Head(toDimNames)] = inverted.value],
             fromDim, Tail(toDimNames))

RECURSIVE invertMappings(_, _)
invertMappings(st, list) ==
  IF list = <<>> \/ st.error # NoError THEN st
  ELSE invertMappings(
         invertMappingsOf(st, Head(list), SelectSeq(DimNames, LAMBDA t : t \in DOMAIN mappings[Head(list)])),
         Tail(list))

\* The exit codes of a run whose promise is rejected with an uncaught exception:
\* generate() is async and its caller neither awaits it nor handles the rejection,
\* so the code is the one the runtime gives an unhandled rejection.
UnhandledRejectionCodes == {0, 1}

\* The loops that invert the mappings; an exception ends readSubscriptRanges and the run.
InvertMappings ==
  /\ pc = "mappings"
  /\ LET st == invertMappings([mappings |-> mappings, error |-> NoError], allDims)
     IN  /\ mappings' = st.mappings
         /\ IF st.error = NoError
            THEN pc' = "readVariables" /\ UNCHANGED <<stderr, exitCode>>
            ELSE /\ pc' = "threw"
                 /\ stderr' = Append(stderr, st.error)
                 /\ exitCode' \in UnhandledRejectionCodes
  /\ UNCHANGED <<opts, output, addIndexCalls, spec, extData, ranges, dimIdx, dimFoundInValue, dims, indices, parseTree, variables, nonAtoANames, sorted>>

NextFamilies ==
  \/ VisitRanges
  \/ ExpandDim
  \/ ExpandTest
  \/ SetFamilies
  \/ AddIndices
  \/ InvertMappings

SpecFamilies == InitFamilies /\ [][NextFamilies]_vars


\* ------------------------------------------------------------ the models

\* The expanded subscript registry of the models whose variables are read:
\* DimR: r1, r2; SubR: r2; DimS: s1, s2.
Registry ==
  [d \in {"_dimr", "_subr", "_dims"} |->
     IF d = "_dimr" THEN [value |-> <<"_r1", "_r2">>, size |-> 2, family |-> "_dimr"]
     ELSE IF d = "_subr" THEN [value |-> <<"_r2">>, size |-> 1, family |-> "_dimr"]
     ELSE [value |-> <<"_s1", "_s2">>, size |-> 2, family |-> "_dims"]]

RegistryRanges ==
  [d \in {"_dimr", "_subr", "_dims"} |->
     IF d = "_dimr" THEN <<"_r1", "_subr">>
     ELSE IF d = "_subr" THEN <<"_r2">>
     ELSE <<"_s1", "_s2">>]

RegistryIndices ==
  [i \in {"_r1", "_r2", "_s1", "_s2"} |->
     IF i = "_r1" THEN [value |-> 0, family |-> "_dimr"]
     ELSE IF i = "_r2" THEN [value |-> 1, family |-> "_dimr"]
     ELSE IF i = "_s1" THEN [value |-> 0, family |-> "_dims"]
     ELSE [value |-> 1, family |-> "_dims"]]

\* The calls of addIndex that registered the indices of Registry.
RegistryAddIndexCalls ==
  <<<<"_r1", 0, "_dimr">>, <<"_r2", 1, "_dimr">>, <<"_s1", 0, "_dims">>, <<"_s2", 1, "_dims">>>>

LHS(varName, subscripts) == [varName |-> varName, subscripts |-> subscripts]

\* The left-hand sides of the models whose equations refer to each other.
SortLHS == <<LHS("_x", <<>>), LHS("_a", <<"_r1">>), LHS("_a", <<"_r2">>)>>

\* The left-hand sides of the models of constants, with one and two subscripts.
ConstLHS ==
  <<LHS("_b", <<"_dimr">>), LHS("_b", <<"_r1">>), LHS("_b", <<"_subr">>),
    LHS("_a", <<"_r1", "_s1">>), LHS("_a", <<"_r1", "_s2">>), LHS("_a", <<"_r2", "_s1">>),
    LHS("_a", <<"_dimr", "_s1">>), LHS("_a", <<"_dimr", "_dims">>)>>

\* The left-hand sides of the models with equations for an array that overlap: the
\* whole of DimR, the element r1 and the subrange SubR.
MatchLHS ==
  <<LHS("_x", <<>>), LHS("_b", <<"_dimr">>), LHS("_b", <<"_r1">>), LHS("_b", <<"_subr">>)>>

VarTypes == {"const", "data", "lookup", "aux", "level", "initial"}

\* The sub-sequences of lhs of 1 to MaxVars elements.
Tables(lhs) ==
  {[k \in 1..Cardinality(S) |-> lhs[SetToSeq(S)[k]]] :
     S \in SubsetsUpTo(1..Len(lhs), MaxVars) \ {{}}}

\* The references an equation of the given type may hold: <<record, list, target>>,
\* the target a record of the table or _time, the record after the last.
RefEntries(types) ==
  LET n == Len(types)
  IN  {<<i, "references", j>> : i \in {k \in 1..n : types[k] \in {"aux", "level"}}, j \in 1..(n + 1)}
      \cup
      {<<i, "initReferences", j>> : i \in {k \in 1..n : types[k] \in {"level", "initial"}}, j \in 1..(n + 1)}

Equation(lhs, varType, entries, i) ==
  [varName |-> lhs.varName, subscripts |-> lhs.subscripts, varType |-> varType,
   references |-> SetToSeq({e[3] : e \in {f \in entries : f[1] = i /\ f[2] = "references"}}),
   initReferences |-> SetToSeq({e[3] : e \in {f \in entries : f[1] = i /\ f[2] = "initReferences"}})]

\* A model whose equations refer to each other.
SortModel(lhs, types, entries) ==
  [i \in 1..Len(lhs) |-> Equation(lhs[i], types[i], entries, i)]

\* A model of constants.
ConstModel(lhs) ==
  [i \in 1..Len(lhs) |-> Equation(lhs[i], "const", {}, i)]

\* The names a spec lists: the name of a variable of some models, the name of a
\* variable of no model, and a name with a subscript.
SpecNames == {<<"_x">>, <<"_y">>, <<"_y", "[", "_r1", "]">>}

\* The lists of at most MaxSpecVars names.
SpecVarLists == UNION {[1..n -> SpecNames] : n \in 0..MaxSpecVars}

\* The keys of the external data.
ExtDataNames == {<<"_x">>, <<"_y">>}

SpecOf(inputVars, outputVars) ==
  [inputVars |-> inputVars, outputVars |-> outputVars, dimensionFamilies |-> [d \in {} |-> ""]]

\* The references of the equation of _x to the records of _b.
MatchEntries(lhs) ==
  {<<i, "references", j>> : i \in {k \in 1..Len(lhs) : lhs[k].varName = "_x"},
                            j \in {k \in 1..Len(lhs) : lhs[k].varName = "_b"}}

\* A model of an aux _x that reads elements of a level array _b.
MatchModel(lhs, entries) ==
  [i \in 1..Len(lhs) |->
     Equation(lhs[i], IF lhs[i].varName = "_x" THEN "aux" ELSE "level", entries, i)]

\* ---------------------------------------------------------------- read()

\* The state when read() has run readSubscriptRanges on the subscript ranges of
\* Registry and is about to read the variables of the model tree.
InitRead(tree, specArg, extDataArg) ==
  /\ opts = OptsOf(specArg)
  /\ output = {}
  /\ mappings = NoMappings(DOMAIN Registry)
  /\ addIndexCalls = RegistryAddIndexCalls
  /\ spec = specArg
  /\ extData = extDataArg
  /\ ranges = RegistryRanges
  /\ dimIdx = 0
  /\ dimFoundInValue = FALSE
  /\ dims = Registry
  /\ indices = RegistryIndices
  /\ parseTree = tree
  /\ variables = <<>>
  /\ nonAtoANames = [name \in {} |-> <<>>]
  /\ pc = "readVariables"
  /\ sorted = [call |-> "", vars |-> <<>>]
  /\ stderr = <<>>
  /\ exitCode = -1

Init ==
  \/ \E lhs \in Tables(SortLHS) :
       \E types \in [1..Len(lhs) -> VarTypes] :
         \E entries \in SubsetsUpTo(RefEntries(types), MaxRefs) :
           InitRead(SortModel(lhs, types, entries), NoSpec, {})
  \/ \E lhs \in Tables(ConstLHS) : InitRead(ConstModel(lhs), NoSpec, {})
  \/ \E lhs \in Tables(SortLHS) :
       \E inputVars \in SpecVarLists, outputVars \in SpecVarLists, names \in SUBSET ExtDataNames :
         InitRead(ConstModel(lhs), SpecOf(inputVars, outputVars), names)
  \/ \E lhs \in Tables(MatchLHS) :
       \E entries \in SubsetsUpTo(MatchEntries(lhs), MaxRefs) :
         InitRead(MatchModel(lhs, entries), NoSpec, {})

\* readVariables: one record per equation, then the placeholder of Time.
ReadVariables ==
  /\ pc = "readVariables"
  /\ variables' = [k \in 1..Len(parseTree) |-> Variable(parseTree[k].varName, parseTree[k].subscripts)]
                    \o <<Variable("_time", <<>>)>>
  /\ pc' = "findNonAtoAVars"
  /\ UNCHANGED <<opts, output, mappings, addIndexCalls, spec, extData, ranges, dimIdx, dimFoundInValue, dims, indices, parseTree, nonAtoANames, sorted, stderr, exitCode>>

FindNonAtoAVars ==
  /\ pc = "findNonAtoAVars"
  /\ nonAtoANames' = [name \in {n \in varNames : isNonAtoAGroup(varsWithName(n))} |->
                        expansionDims(varsWithName(name))]
  /\ pc' = "setRefIds"
  /\ UNCHANGED <<opts, output, mappings, addIndexCalls, spec, extData, ranges, dimIdx, dimFoundInValue, dims, indices, parseTree, variables, sorted, stderr, exitCode>>

SetRefIds ==
  /\ pc = "setRefIds"
  /\ variables' = [k \in 1..Len(variables) |-> [variables[k] EXCEPT !.refId = refIdForVar(variables[k])]]
  /\ pc' = "readEquations"
  /\ UNCHANGED <<opts, output, mappings, addIndexCalls, spec, extData, ranges, dimIdx, dimFoundInValue, dims, indices, parseTree, nonAtoANames, sorted, stderr, exitCode>>

\* What the equation reader leaves in the record of equation eqn.
equationRead(v, eqn) ==
  [v EXCEPT !.varType = eqn.varType,
            !.hasInitValue = eqn.varType \in {"level", "initial"},
            !.references = [j \in 1..Len(eqn.references) |-> variables[eqn.references[j]].refId],
            !.initReferences = [j \in 1..Len(eqn.initReferences) |-> variables[eqn.initReferences[j]].refId]]

ReadEquations ==
  /\ pc = "readEquations"
  /\ variables' = [k \in 1..Len(variables) |->
                     IF k <= Len(parseTree) THEN equationRead(variables[k], parseTree[k])
                     ELSE variables[k]]
  /\ pc' = "removeConstRefs"
  /\ UNCHANGED <<opts, output, mappings, addIndexCalls, spec, extData, ranges, dimIdx, dimFoundInValue, dims, indices, parseTree, nonAtoANames, sorted, stderr, exitCode>>

RemoveConstRefs ==
  /\ pc = "removeConstRefs"
  /\ variables' = [k \in 1..Len(variables) |->
                     [variables[k] EXCEPT !.references = withoutConstRefs(@),
                                          !.initReferences = withoutConstRefs(@)]]
  /\ pc' = "checkSpecVars"
  /\ UNCHANGED <<opts, output, mappings, addIndexCalls, spec, extData, ranges, dimIdx, dimFoundInValue, dims, indices, parseTree, nonAtoANames, sorted, stderr, exitCode>>

\* addEquation putting the new record in the place of the last record.
addEquationOverLast(vs, varName) ==
  [vs EXCEPT ![Len(vs)] = [Variable(varName[1], <<>>) EXCEPT !.refId = refIdForVar(Variable(varName[1], <<>>)),
                                                              !.varType = "data",
                                                              !.references = <<<<"_time">>>>]]

\* addEquation of varName = WITH LOOKUP(Time, (...)): the variable reader adds the
\* record, the refId is set and the equation reader reads the equation.
addEquation(vs, varName) ==
  Append(vs, [Variable(varName[1], <<>>) EXCEPT !.refId = refIdForVar(Variable(varName[1], <<>>)),
                                                !.varType = "data",
                                                !.references = <<<<"_time">>>>])

\* console.error(`${specType} variable ${varName} not found in the model or external data sources`)
notFound(specType, varName) == [specType |-> specType, varName |-> varName]

\* The body of the loop of check for one name; st is the table and the error stream.
checkVarName(st, varName, specType) ==
  IF Contains("[", varName) THEN st
  ELSE IF findRefId(varName, st.variables) # Undefined THEN st
  ELSE IF varName \in extData THEN [st EXCEPT !.variables = addEquation(@, varName)]
  ELSE [st EXCEPT !.stderr = Append(@, notFound(specType, varName))]

\* checkSpecVars.check(varNames, specType)
RECURSIVE check(_, _, _)
check(st, names, specType) ==
  IF names = <<>> THEN st
  ELSE check(checkVarName(st, Head(names), specType), Tail(names), specType)

CheckSpecVars ==
  /\ pc = "checkSpecVars"
  /\ LET st0 == [variables |-> variables, stderr |-> stderr]
         st1 == check(st0, spec.inputVars, "input")
         st2 == check(st1, spec.outputVars, "output")
     IN  variables' = st2.variables /\ stderr' = st2.stderr
  /\ pc' = "generate"
  /\ UNCHANGED <<opts, output, mappings, addIndexCalls, spec, extData, ranges, dimIdx, dimFoundInValue, dims, indices, parseTree, nonAtoANames, sorted, exitCode>>

\* ---------------------------------------------------- the sorted lists

\* The catch block without process.exit: the diagnostic, and an empty list returned.
CycleLogged(call) ==
  /\ stderr' = Append(stderr, "Cyclic dependency")
  /\ exitCode' = exitCode
  /\ pc' = "returned"
  /\ sorted' = [call |-> call, vars |-> <<>>]

\* toposort threw: console.error(e.message), process.exit(1).
CycleExit(call) ==
  /\ stderr' = Append(stderr, "Cyclic dependency")
  /\ exitCode' = 1
  /\ pc' = "exited"
  /\ sorted' = [call |-> call, vars |-> <<>>]

Returns(call, vs) ==
  /\ sorted' = [call |-> call, vars |-> vs]
  /\ pc' = "returned"
  /\ UNCHANGED <<stderr, exitCode>>

SortVarsOfType(call, varType) ==
  /\ pc = "generate"
  /\ IF toposort(typeGraph(varType)) = {}
     THEN CycleExit(call)
     ELSE \E order \in toposort(typeGraph(varType)) : Returns(call, sortedVarsOfType(varType, order))
  /\ UNCHANGED <<opts, output, mappings, addIndexCalls, spec, extData, ranges, dimIdx, dimFoundInValue, dims, indices, parseTree, variables, nonAtoANames>>

AuxVars == SortVarsOfType("auxVars", "aux")

LevelVars == SortVarsOfType("levelVars", "level")

InitVars ==
  /\ pc = "generate"
  /\ IF toposort(initGraph) = {}
     THEN CycleExit("initVars")
     ELSE \E order \in toposort(initGraph) : Returns("initVars", sortedInitVars(order))
  /\ UNCHANGED <<opts, output, mappings, addIndexCalls, spec, extData, ranges, dimIdx, dimFoundInValue, dims, indices, parseTree, variables, nonAtoANames>>

Next ==
  \/ ReadVariables
  \/ FindNonAtoAVars
  \/ SetRefIds
  \/ ReadEquations
  \/ RemoveConstRefs
  \/ CheckSpecVars
  \/ AuxVars
  \/ LevelVars
  \/ InitVars

Spec == Init /\ [][Next]_vars

\* ------------------------------------------------------------ generate()

\* The contents of a spec file that parses: its inputVars.
SpecFiles == {SpecOf(inputVars, <<>>) : inputVars \in SpecVarLists}

\* The runs of generate() without the genhtml and genwasm options: the operations
\* asked for, and the file that opts.spec names: absent, not JSON, or a spec.
OptsModels ==
  {[genc |-> g, list |-> l, preprocess |-> p, analysis |-> a, specFile |-> "absent", specJson |-> NoSpec] :
     g \in BOOLEAN, l \in BOOLEAN, p \in BOOLEAN, a \in BOOLEAN}
  \cup
  {[genc |-> g, list |-> l, preprocess |-> p, analysis |-> a, specFile |-> "invalid", specJson |-> NoSpec] :
     g \in BOOLEAN, l \in BOOLEAN, p \in BOOLEAN, a \in BOOLEAN}
  \cup
  {[genc |-> g, list |-> l, preprocess |-> p, analysis |-> a, specFile |-> "valid", specJson |-> j] :
     g \in BOOLEAN, l \in BOOLEAN, p \in BOOLEAN, a \in BOOLEAN, j \in SpecFiles}

\* The state when generate() is called.
InitGenerate ==
  /\ opts \in OptsModels
  /\ output = {}
  /\ mappings = NoMappings({})
  /\ addIndexCalls = <<>>
  /\ spec = NoSpec
  /\ extData = {}
  /\ ranges = [d \in {} |-> <<>>]
  /\ dimIdx = 0
  /\ dimFoundInValue = FALSE
  /\ dims = [d \in {} |-> <<>>]
  /\ indices = [i \in {} |-> <<>>]
  /\ parseTree = <<>>
  /\ variables = <<>>
  /\ nonAtoANames = [name \in {} |-> <<>>]
  /\ pc = "parseSpec"
  /\ sorted = [call |-> "", vars |-> <<>>]
  /\ stderr = <<>>
  /\ exitCode = -1

\* parseJsonFile: B.read or JSON.parse throws for a file that is absent or is not
\* JSON; the catch block is empty and result stays {}.
parseJsonFile(file) ==
  IF file.specFile = "valid" THEN [spec |-> file.specJson, stderr |-> <<>>]
  ELSE [spec |-> NoSpec, stderr |-> <<>>]

\* let spec = parseSpec(opts.spec); the spec files read hold no dimensionFamilies, so
\* parseSpec has no name to translate to canonical form.
ParseSpec ==
  /\ pc = "parseSpec"
  /\ spec' = parseJsonFile(opts).spec
  /\ stderr' = stderr \o parseJsonFile(opts).stderr
  /\ pc' = "preprocessModel"
  /\ UNCHANGED <<opts, output, mappings, addIndexCalls, extData, ranges, dimIdx, dimFoundInValue, dims, indices, parseTree, variables, nonAtoANames, sorted, exitCode>>

\* preprocessModel, and with the analysis or preprocess option the model written and process.exit(0).
PreprocessModel ==
  /\ pc = "preprocessModel"
  /\ IF opts.analysis \/ opts.preprocess
     THEN output' = output \cup {"mdl"} /\ exitCode' = 0 /\ pc' = "exited"
     ELSE UNCHANGED <<output, exitCode>> /\ pc' = "parseModel"
  /\ UNCHANGED <<opts, mappings, addIndexCalls, spec, extData, ranges, dimIdx, dimFoundInValue, dims, indices, parseTree, variables, nonAtoANames, sorted, stderr>>

\* let parseTree = parseModel(input)
ParseModel ==
  /\ pc = "parseModel"
  /\ pc' = "codeGenerator"
  /\ UNCHANGED <<opts, output, mappings, addIndexCalls, spec, extData, ranges, dimIdx, dimFoundInValue, dims, indices, parseTree, variables, nonAtoANames, sorted, stderr, exitCode>>

\* codeGenerator(...).generate() and the files written after it.
GenerateCode ==
  /\ pc = "codeGenerator"
  /\ output' = output \cup (IF opts.genc THEN {"c"} ELSE {})
                       \cup (IF opts.list THEN {"vars.txt", "subs.txt", "vars.yaml", "subs.yaml"} ELSE {})
  /\ exitCode' = 0
  /\ pc' = "done"
  /\ UNCHANGED <<opts, mappings, addIndexCalls, spec, extData, ranges, dimIdx, dimFoundInValue, dims, indices, parseTree, variables, nonAtoANames, sorted, stderr>>

NextGenerate ==
  \/ ParseSpec
  \/ PreprocessModel
  \/ ParseModel
  \/ GenerateCode

SpecGenerate == InitGenerate /\ [][NextGenerate]_vars

\* ------------------------------------------------------------ the claims

\* setRefIds has run.
RefIdsSet == pc \in {"readEquations", "removeConstRefs", "checkSpecVars", "generate", "returned", "exited"}

\* read() has returned.
ReadDone == pc \in {"generate", "returned", "exited"}

Records == 1..Len(variables)

SameName(i, j) == i # j /\ variables[i].varName = variables[j].varName

\* C1: once findNonAtoAVars and setRefIds have run, no two distinct records of the
\* variable table have the same refId.
C1_RefIdInjective ==
  RefIdsSet => \A i, j \in Records : i # j => variables[i].refId # variables[j].refId

\* Two records of one name with two subscripts each, equal in the first, have their refIds.
C1_Witness ==
  /\ RefIdsSet
  /\ \E i, j \in Records :
       /\ SameName(i, j)
       /\ Len(variables[i].subscripts) = 2
       /\ variables[i].subscripts[1] = variables[j].subscripts[1]

\* The record positions that hold the refId.
Resolved(refId) == {j \in Records : variables[j].refId = refId}

\* Record r is referenced at eval time by record v, and both have the type.
RefersTo(v, r, varType) ==
  /\ v # r
  /\ variables[v].varType = varType /\ variables[v].varName # "_time"
  /\ variables[r].varType = varType /\ variables[r].varName # "_time"
  /\ Contains(variables[r].refId, variables[v].references)

\* Record a comes before record b in the list returned, and both are in it.
Before(a, b) ==
  /\ IndexOf(variables[b], sorted.vars) <= Len(sorted.vars)
  /\ IndexOf(variables[a], sorted.vars) < IndexOf(variables[b], sorted.vars)

Returned(call) == pc = "returned" /\ sorted.call = call

\* C2: in the list auxVars() returns, every aux record that another aux record
\* references comes before the record that references it.
C2_AuxPrerequisitesFirst ==
  Returned("auxVars") => \A v, r \in Records : RefersTo(v, r, "aux") => Before(r, v)

\* auxVars() returned for a table in which an aux record references a later aux record.
C2_Witness ==
  /\ Returned("auxVars")
  /\ \E v, r \in Records : RefersTo(v, r, "aux") /\ v < r

\* C3: in the list levelVars() returns, for every level record v that references
\* another level record r, the graph holds the edge (r, v) and v comes before r.
C3_LevelReversed ==
  Returned("levelVars") =>
    \A v, r \in Records :
      RefersTo(v, r, "level") =>
        /\ Contains(<<variables[r].refId, variables[v].refId>>, typeGraph("level"))
        /\ Before(v, r)

\* levelVars() returned for a table in which a level references an earlier level.
C3_Witness ==
  /\ Returned("levelVars")
  /\ \E v, r \in Records : RefersTo(v, r, "level") /\ r < v

\* Two levels whose eval-time references contain each other.
MutualLevels(p, q) == RefersTo(p, q, "level") /\ RefersTo(q, p, "level")

\* C4: for two level records whose references contain each other, levelVars()
\* reports no dependency cycle and returns a list that contains both.
C4_MutualLevelsSorted ==
  \A p, q \in Records :
    (sorted.call = "levelVars" /\ MutualLevels(p, q)) =>
      /\ pc = "returned"
      /\ stderr = <<>>
      /\ Contains(variables[p], sorted.vars)
      /\ Contains(variables[q], sorted.vars)

\* The records that record i depends on at init time.
InitDeps(i) ==
  {j \in Records :
     Contains(variables[j].refId,
              IF variables[i].hasInitValue THEN variables[i].initReferences
              ELSE variables[i].references)}

\* The records reachable from the records of S at init time, those of S included.
RECURSIVE InitClosure(_)
InitClosure(S) ==
  LET more == S \cup UNION {InitDeps(i) : i \in S}
  IN  IF more = S THEN S ELSE InitClosure(more)

InitSeeds == {i \in Records : variables[i].hasInitValue}

\* C5: the records initVars() returns are exactly the records reachable from the
\* records with hasInitValue by initReferences (of a record with hasInitValue) or
\* references (of another), those of type const or lookup left out.
C5_InitVarsAreClosure ==
  Returned("initVars") =>
    SeqToSet(sorted.vars) =
      {variables[i] : i \in {j \in InitClosure(InitSeeds) :
                               variables[j].varType \notin {"const", "lookup"}}}

\* initVars() returned a record that no record with hasInitValue references itself,
\* and left out a record that is neither const nor lookup.
C5_Witness ==
  /\ Returned("initVars")
  /\ \E i \in InitClosure(InitSeeds) : i \notin InitSeeds \cup UNION {InitDeps(s) : s \in InitSeeds}
  /\ \E i \in Records : /\ variables[i].varType \notin {"const", "lookup"}
                        /\ ~Contains(variables[i], sorted.vars)

ConstTypes == {"const", "data", "lookup"}

\* C6: after read(), no refId in the references or initReferences of a record
\* resolves to a record of type const, data or lookup.
C6_NoConstRefs ==
  ReadDone =>
    \A i \in Records :
      \A refId \in SeqToSet(variables[i].references) \cup SeqToSet(variables[i].initReferences) :
        \A j \in Resolved(refId) : variables[j].varType \notin ConstTypes

\* read() is done for a model with an equation that refers to a data variable
\* and to a variable that is not constant.
C6_Witness ==
  /\ ReadDone
  /\ \E i \in 1..Len(parseTree) :
       /\ \E t \in SeqToSet(parseTree[i].references) \cup SeqToSet(parseTree[i].initReferences) :
            t <= Len(parseTree) /\ parseTree[t].varType = "data"
       /\ Len(variables[i].references) + Len(variables[i].initReferences) > 0

\* The edges of the graph of a call, as pairs of record positions.
CallEdges(call) ==
  IF call = "auxVars" THEN {<<v, r>> \in Records \X Records :
                              variables[v].varType = "aux" /\ variables[v].varName # "_time"
                              /\ variables[r].varType = "aux" /\ variables[r].varName # "_time"
                              /\ Contains(variables[r].refId, variables[v].references)}
  ELSE IF call = "levelVars" THEN {<<r, v>> \in Records \X Records :
                              variables[v].varType = "level" /\ variables[v].varName # "_time"
                              /\ variables[r].varType = "level" /\ variables[r].varName # "_time"
                              /\ Contains(variables[r].refId, variables[v].references)}
  ELSE {<<v, r>> \in Records \X Records : v \in InitClosure(InitSeeds) /\ r \in InitDeps(v)}

\* The records reachable from the records of S by one edge or more.
RECURSIVE ReachedFrom(_, _)
ReachedFrom(S, edges) ==
  LET more == S \cup {e[2] : e \in {f \in edges : f[1] \in S}}
  IN  IF more = S THEN S ELSE ReachedFrom(more, edges)

HasCycle(edges) ==
  \E e \in edges : e[1] \in ReachedFrom({e[2]}, edges)

\* C7: when the graph of auxVars(), levelVars() or initVars() holds a directed
\* cycle, the call returns no list: a diagnostic is written and the process exits
\* with a non-zero code.
C7_CycleExits ==
  (sorted.call # "" /\ HasCycle(CallEdges(sorted.call))) =>
    /\ pc = "exited"
    /\ exitCode > 0
    /\ Len(stderr) > 0
    /\ sorted.vars = <<>>

\* A call found a cycle of two records or more.
C7_Witness ==
  /\ sorted.call # ""
  /\ \E e \in CallEdges(sorted.call) : e[1] # e[2] /\ e[1] \in ReachedFrom({e[2]}, CallEdges(sorted.call))

\* varName[s1] or varName[s1,s2]
WithSubscripts(v) ==
  IF Len(v.subscripts) = 1 THEN <<v.varName, "[", v.subscripts[1], "]">>
  ELSE <<v.varName, "[", v.subscripts[1], ",", v.subscripts[2], "]">>

\* C8: the refId of a record is varName[subscripts joined by ","] exactly when its
\* varName is registered as non-apply-to-all, that is, when another record has the
\* varName; the refId of every other record is the varName.
C8_RefIdForm ==
  RefIdsSet =>
    \A i \in Records :
      LET v == variables[i]
          shared == \E j \in Records : SameName(i, j)
      IN  /\ isNonAtoAName(v.varName) <=> shared
          /\ shared => v.refId = WithSubscripts(v)
          /\ ~shared => v.refId = <<v.varName>>

\* The refIds are set in a table with a name of two records and a name of one
\* record with a subscript.
C8_Witness ==
  /\ RefIdsSet
  /\ \E i, j \in Records : SameName(i, j)
  /\ \E i \in Records : /\ hasSubscripts(variables[i])
                        /\ ~\E j \in Records : SameName(i, j)

\* The pairs <<d, e>> of dimensions with the name of e in the definition of d.
RangeEdges == {<<d, e>> \in (DOMAIN ranges) \X (DOMAIN ranges) : Contains(e, ranges[d])}

AcyclicRanges == ~HasCycle(RangeEdges)

\* The do loop of readSubscriptRanges has ended.
ExpansionDone == pc = "families"

OnlyIndexNames ==
  \A d \in DOMAIN dims :
    /\ \A k \in 1..Len(dims[d].value) : dims[d].value[k] \notin DOMAIN dims
    /\ dims[d].size = Len(dims[d].value)

\* C9: when no dimension's definition contains its own name, directly or through
\* other dimensions, the expansion loop ends, and then every dimension's value
\* holds index names only and its size is the length of its value.
C9_ExpansionTerminates ==
  /\ [](ExpansionDone /\ AcyclicRanges => OnlyIndexNames)
  /\ (AcyclicRanges ~> ExpansionDone)

\* The loop has ended for a dimension defined by a dimension defined by a dimension.
C9_Witness ==
  /\ ExpansionDone
  /\ AcyclicRanges
  /\ \E d, e, f \in DOMAIN ranges : Contains(e, ranges[d]) /\ Contains(f, ranges[e])

\* C10: when a dimension's definition contains its own name, directly or through
\* other dimensions, the expansion loop does not end as if the values were
\* expanded: readSubscriptRanges has reported a CyclicDimension failure.
C10_CyclicDimensionFails ==
  (ExpansionDone /\ ~AcyclicRanges) => Contains("CyclicDimension", stderr)

\* findNonAtoAVars has run.
NonAtoAFound == pc = "setRefIds" \/ RefIdsSet

\* The positions of the records that have the varName.
Group(varName) == {i \in Records : variables[i].varName = varName}

\* C19: findNonAtoAVars registers a varName exactly when more than one record has
\* it, and the flags registered are one per subscript position, true exactly at the
\* positions where two records of the name have different subscripts.
C19_ExpansionFlags ==
  NonAtoAFound =>
    \A name \in varNames :
      /\ isNonAtoAName(name) <=> Cardinality(Group(name)) > 1
      /\ isNonAtoAName(name) =>
           \A i \in Group(name) :
             /\ Len(nonAtoANames[name]) = Len(variables[i].subscripts)
             /\ \A pos \in 1..Len(nonAtoANames[name]) :
                  nonAtoANames[name][pos] <=>
                    \E j, k \in Group(name) : variables[j].subscripts[pos] # variables[k].subscripts[pos]

\* A name of three records is registered: its first two records agree in the first
\* subscript, the third does not, and the flag of that position is set.
C19_Witness ==
  /\ NonAtoAFound
  /\ \E name \in varNames :
       /\ Cardinality(Group(name)) = 3
       /\ LET vs == varsWithName(name)
          IN  /\ vs[1].subscripts[1] = vs[2].subscripts[1]
              /\ vs[3].subscripts[1] # vs[1].subscripts[1]
              /\ nonAtoANames[name][1]

\* The var type that a call of auxVars() or levelVars() sorts.
TypeOfCall(call) == IF call = "auxVars" THEN "aux" ELSE "level"

\* The records of the var type, the placeholder of Time left out.
OfType(varType) == {i \in Records : variables[i].varType = varType /\ variables[i].varName # "_time"}

\* The records at an end of an edge of the graph of the call.
InEdge(call) == {e[1] : e \in CallEdges(call)} \cup {e[2] : e \in CallEdges(call)}

\* The positions of the list returned that hold the record.
PositionsOf(i) == {k \in 1..Len(sorted.vars) : sorted.vars[k] = variables[i]}

\* C20: the list that auxVars() or levelVars() returns holds every record of the
\* type other than _time exactly once and no other record, and the records that
\* take part in no edge come first, in the order of their refIds.
C20_SortedIsPermutation ==
  \A call \in {"auxVars", "levelVars"} :
    Returned(call) =>
      LET varType == TypeOfCall(call)
          nodeps == OfType(varType) \ InEdge(call)
      IN  /\ \A i \in OfType(varType) : Cardinality(PositionsOf(i)) = 1
          /\ Len(sorted.vars) = Cardinality(OfType(varType))
          /\ \A k \in 1..Len(sorted.vars) : \E i \in OfType(varType) : sorted.vars[k] = variables[i]
          /\ \A i \in nodeps : PositionsOf(i) \subseteq 1..Cardinality(nodeps)
          /\ \A k \in 1..(Cardinality(nodeps) - 1) :
               StrLess(sorted.vars[k].refId, sorted.vars[k + 1].refId)

\* A call returned for a table with an edge and with a record of the type in no
\* edge, which comes before the edge's records in the table order of refIds.
C20_Witness ==
  \E call \in {"auxVars", "levelVars"} :
    /\ Returned(call)
    /\ CallEdges(call) # {}
    /\ \E i \in OfType(TypeOfCall(call)) \ InEdge(call) :
         \E j \in InEdge(call) : StrLess(variables[j].refId, variables[i].refId)

\* The record matches the refId under the rules of varWithRefId: its refId is the
\* refId, or it has the varName and the subscripts of its refId match the refId's.
MatchesRefId(j, refId) ==
  \/ variables[j].refId = refId
  \/ /\ variables[j].varName = splitRefId(refId).varName
     /\ subscriptsMatch(splitRefId(variables[j].refId).subscripts, splitRefId(refId).subscripts)

\* C18: after analysis, every refId in the references or initReferences of a record
\* is matched by exactly one record of the table under the rules of varWithRefId.
C18_ReferenceMatchesOneRecord ==
  (pc = "checkSpecVars" \/ ReadDone) =>
    \A i \in Records :
      \A refId \in SeqToSet(variables[i].references) \cup SeqToSet(variables[i].initReferences) :
        Cardinality({j \in Records : MatchesRefId(j, refId)}) = 1

\* The names of the spec's inputVars and outputVars.
SpecVarNames == SeqToSet(spec.inputVars) \cup SeqToSet(spec.outputVars)

\* read() has just returned.
ReadReturned == pc = "generate"

\* C14: when read() has returned, the error stream holds a diagnostic naming every
\* name of spec.inputVars and spec.outputVars that is the refId of no record and
\* no key of the external data.
C14_MissingSpecVarReported ==
  ReadReturned =>
    \A name \in SpecVarNames :
      (findRefId(name, variables) = Undefined /\ name \notin extData) =>
        \E k \in 1..Len(stderr) : stderr[k].varName = name

\* The record that checkSpecVars adds for a name with external data.
IsDataRecordOf(v, name) ==
  /\ v.varName = name[1] /\ v.refId = name /\ v.subscripts = <<>> /\ v.varType = "data"

\* C15, as the spec states it: once analyze() has returned, the rest of read() leaves
\* the variable table as it is.
C15_TableReadOnly == [][pc = "checkSpecVars" => variables' = variables]_vars

\* C15, amended: once analyze() has returned, the rest of read() removes no record
\* and changes no record of the table; it adds, at the end of the table, one data
\* record for every name of the spec without "[" that is the refId of no record and
\* a key of the external data, and nothing else.
C15_TableOnlyGrows ==
  [][pc = "checkSpecVars" =>
       /\ Len(variables') >= Len(variables)
       /\ SubSeq(variables', 1, Len(variables)) = variables
       /\ \A k \in (Len(variables) + 1)..Len(variables') :
            \E name \in SpecVarNames :
              /\ ~Contains("[", name) /\ name \in extData
              /\ findRefId(name, variables) = Undefined
              /\ IsDataRecordOf(variables'[k], name)
       /\ \A name \in SpecVarNames :
            (~Contains("[", name) /\ name \in extData /\ findRefId(name, variables) = Undefined) =>
              Cardinality({k \in (Len(variables) + 1)..Len(variables') :
                             IsDataRecordOf(variables'[k], name)}) = 1]_vars

\* read() has returned with two records added to the table of analyze().
C15_Witness ==
  /\ ReadReturned
  /\ Len(variables) = Len(parseTree) + 3

\* parseSpec has run on a file that is not JSON.
SpecFileInvalid == opts.specFile = "invalid" /\ pc # "parseSpec"

\* C16: when the spec file exists and is not valid JSON, generate() writes a
\* diagnostic and ends with a non-zero exit code, and neither parses the model nor
\* generates code.
C16_InvalidSpecFails ==
  SpecFileInvalid =>
    /\ Len(stderr) > 0
    /\ exitCode > 0
    /\ pc \notin {"parseModel", "codeGenerator", "done"}
    /\ output = {}

\* The loop over allDims that sets the families has ended.
FamiliesSet == pc \in {"indices", "mappings", "readVariables", "threw"}

\* The dimensions whose value contains the first index of dim.
Candidates(dim) == {t \in DOMAIN dims : Contains(dims[dim].value[1], dims[t].value)}

\* C17: the family of a dimension that spec.dimensionFamilies does not name is a
\* dimension of the greatest size among the dimensions whose expanded value contains
\* its first index, and of those of that size the one whose name is first in
\* alphabetical order.
C17_FamilyIsGreatest ==
  FamiliesSet =>
    \A d \in DOMAIN dims :
      d \notin DOMAIN spec.dimensionFamilies =>
        /\ dims[d].family \in Candidates(d)
        /\ \A t \in Candidates(d) :
             /\ dims[t].size <= dims[dims[d].family].size
             /\ dims[t].size = dims[dims[d].family].size => NameRank(dims[d].family) <= NameRank(t)

\* The families are set, and a dimension that the spec does not name has an other
\* dimension as its family, chosen by its name among two of the greatest size.
C17_Witness ==
  /\ FamiliesSet
  /\ \E d \in DOMAIN dims :
       /\ d \notin DOMAIN spec.dimensionFamilies
       /\ dims[d].family # d
       /\ dims[dims[d].family].size = dims[d].size
       /\ \E t \in Candidates(d) : dims[t].size < dims[d].size

\* The loop over allDims that calls addIndex has ended.
IndicesAdded == pc \in {"mappings", "readVariables", "threw"}

\* The calls of addIndex that registered the index name.
CallsOf(name) == {c \in 1..Len(addIndexCalls) : addIndexCalls[c][1] = name}

\* C11: after readSubscriptRanges every index name of the expanded value of a
\* dimension has been registered by addIndex exactly once, under one family, and
\* the value of that family dimension contains the index.
C11_IndexRegisteredOnce ==
  IndicesAdded =>
    \A d \in DOMAIN dims :
      \A k \in 1..Len(dims[d].value) :
        /\ Cardinality(CallsOf(dims[d].value[k])) = 1
        /\ \A c \in CallsOf(dims[d].value[k]) :
             Contains(dims[d].value[k], dims[addIndexCalls[c][3]].value)

\* The mapping value raw of fromDim -> toDimName maps the index fromIndName of
\* fromDim to the index toIndName of toDimName: by position when there is no list of
\* map-to subscripts, else by the subscript listed at the position of fromIndName,
\* the index itself or a dimension that holds it.
MapsTo(fromDim, toDimName, raw, fromIndName, toIndName) ==
  \E k \in 1..Len(dims[fromDim].value) :
    /\ dims[fromDim].value[k] = fromIndName
    /\ IF raw = <<>>
       THEN k <= dims[toDimName].size /\ dims[toDimName].value[k] = toIndName
       ELSE /\ k <= Len(raw)
            /\ \/ raw[k] = toIndName
               \/ isDimension(raw[k]) /\ Contains(toIndName, dims[raw[k]].value)

\* The step of the mapping loops that ends without an exception.
MappingsInverted == pc = "mappings" /\ pc' = "readVariables"

\* C12: the value stored for fromDim.mappings[toDimName] is a sequence of index
\* names of fromDim with no missing position, as long as toDimName, whose position
\* i holds the index of fromDim that maps to the i-th index of toDimName.
C12_InvertedMappingComplete ==
  [][MappingsInverted =>
       \A fromDim \in DOMAIN mappings :
         \A toDimName \in DOMAIN mappings[fromDim] :
           /\ Len(mappings'[fromDim][toDimName]) = dims[toDimName].size
           /\ \A i \in 1..Len(mappings'[fromDim][toDimName]) :
                /\ Contains(mappings'[fromDim][toDimName][i], dims[fromDim].value)
                /\ i <= dims[toDimName].size
                /\ MapsTo(fromDim, toDimName, mappings[fromDim][toDimName],
                          mappings'[fromDim][toDimName][i], dims[toDimName].value[i])]_vars

\* The subscript at position k of the mapping value of fromDim -> toDimName is not
\* an index of toDimName, nor a dimension of indices of toDimName.
NotInMapTo(fromDim, toDimName, k) ==
  LET toSubName == mappings[fromDim][toDimName][k]
  IN  IF isDimension(toSubName)
      THEN \E j \in 1..Len(dims[toSubName].value) : ~Contains(dims[toSubName].value[j], dims[toDimName].value)
      ELSE ~Contains(toSubName, dims[toDimName].value)

\* C13: when a mapping value names a subscript that is not an index of the map-to
\* dimension, readSubscriptRanges ends with a diagnostic that names fromDim, the
\* map-from index and the map-to subscript, the run fails with an exit code other
\* than 0, and the mapping is not replaced by a partly filled one.
C13_MappingErrorReported ==
  [][pc = "mappings" =>
     \A fromDim \in DOMAIN mappings :
       \A toDimName \in DOMAIN mappings[fromDim] :
         \A k \in 1..Min({Len(mappings[fromDim][toDimName]), dims[fromDim].size}) :
           NotInMapTo(fromDim, toDimName, k) =>
             /\ pc' = "threw"
             /\ exitCode' > 0
             /\ mappings'[fromDim][toDimName] = mappings[fromDim][toDimName]
             /\ \E e \in 1..Len(stderr') :
                  /\ stderr'[e].fromDim = fromDim
                  /\ stderr'[e].fromIndName \in SeqToSet(dims[fromDim].value)
                  /\ stderr'[e].toSubName \in SeqToSet(mappings[fromDim][toDimName])]_vars

\* Record i is in the list returned.
InSorted(i) == Contains(variables[i], sorted.vars)

\* C21: in the list initVars() returns, which it returns when the init graph has no
\* cycle, every returned record r that a returned record v depends on at init time
\* (by v.initReferences when v.hasInitValue, else by v.references) comes before v.
C21_InitPrerequisitesFirst ==
  Returned("initVars") =>
    \A v \in Records : \A r \in InitDeps(v) :
      (InSorted(v) /\ InSorted(r)) => Before(r, v)

\* initVars() returned a record with an init value and an other record, each after a
\* returned record it depends on that comes later in the table.
C21_Witness ==
  /\ Returned("initVars")
  /\ \E v \in Records : \E r \in InitDeps(v) :
       variables[v].hasInitValue /\ InSorted(v) /\ InSorted(r) /\ v < r
  /\ \E v \in Records : \E r \in InitDeps(v) :
       ~variables[v].hasInitValue /\ InSorted(v) /\ InSorted(r) /\ v < r


====
